---- MODULE Spec2Model ----
(***************************************************************************)
(* EditableBody (src/model/http/editable-body.ts): a decoded body, the     *)
(* encoded body derived from it by the asynchronous encodeBody service,    *)
(* and the lodash throttle (500ms, leading + trailing) that starts the     *)
(* encoding tasks.  Time is in milliseconds.  Buffers are sequences of     *)
(* bytes.  An encoding task is identified by its position in `tasks`, which *)
(* stands for the identity of its ObservablePromise; the promise made by   *)
(* the seeded constructor is SeedPromise.                                  *)
(***************************************************************************)
EXTENDS Integers, Sequences, FiniteSets, TLC

VARIABLES
    now,              \* the clock read by lodash's now()
    decodedBody,      \* this._decodedBody
    header,           \* what getContentEncodingHeader() returns
    encodedBody,      \* this._encodedBody
    encodingPromise,  \* this._encodingPromise
    tasks,            \* every encodeBodyPromise made so far, in order of creation
    throttle,         \* the closure state of _.throttle(...): lastArgs, timerId, lastCallTime, lastInvokeTime
    errorLog,         \* the calls made to logError, in order
    triggers,         \* history: how many times a reaction has run (decoded body replaced, encoding list changed)
    calls,            \* history: the times at which the throttled updateEncodedBody was called
    seed,             \* history: the constructor's initialEncodedBody
    lastSet,          \* history: the constructor's initialDecodedBody, then the last updateDecodedBody argument
    applied,          \* history: the seed, then the result of the last task that settled while current
    parked,           \* the fields of a second EditableBody while the one above runs; Alone when there is none
    fridaHosts,           \* FridaConfig: props.interceptor.metadata.hosts, as the state of every host id
    selectedHostId,       \* FridaConfig.selectedHostId
    searchInput,          \* FridaConfig.searchInput
    inProgressHostIds,    \* FridaConfig.inProgressHostIds
    inProgressTargetIds,  \* FridaConfig.inProgressTargetIds
    activations,          \* every promise returned by props.activateInterceptor, in order of the calls
    reports,              \* the calls of props.reportSuccess: for which activation each was made
    transformRequest,     \* TransformingHandlerConfig.transformRequest
    transformResponse,    \* TransformingHandlerConfig.transformResponse
    upload,               \* BodyTransformConfig.selectBodyReplacementFile: the uploadFile promise it awaits
    headers,              \* StaticResponseHandlerConfig.headers
    body                  \* StaticResponseHandlerConfig.body

bodyVars == <<now, decodedBody, header, encodedBody, encodingPromise, tasks, throttle,
              errorLog, triggers, calls, seed, lastSet, applied, parked>>

fridaVars == <<fridaHosts, selectedHostId, searchInput, inProgressHostIds, inProgressTargetIds,
               activations, reports>>

transformVars == <<transformRequest, transformResponse, upload>>

staticVars == <<headers, body>>

\* The state of the configuration components.
configVars == <<fridaVars, transformVars, staticVars>>

vars == <<bodyVars, configVars>>

\* undefined, for a Buffer: a value that is no sequence of bytes.
Undefined == << -1 >>

\* undefined, for a time, a timer id or a promise.
None == -1

----------------------------------------------------------------------------
(* Bounds and constants *)

wait == 500

Quantum == wait \div 2

StartTime == 2 * wait

MaxIntervals == 2

MaxTime == StartTime + MaxIntervals * wait

MaxCalls == 3

Buffers == { <<>>, <<1>> }

AbsentHeader == [kind |-> "absent", items |-> <<>>]

\* A string header: its text, as the sequence of its names, commas and blanks.
StringHeader(items) == [kind |-> "string", items |-> items]

ArrayHeader(items) == [kind |-> "array", items |-> items]

Headers == { AbsentHeader,
             StringHeader(<<"gzip">>),
             ArrayHeader(<<"gzip">>) }

\* The header values an instance is constructed with; the array form of the
\* same list is reached by a header change only.
InitialHeaders == { AbsentHeader, StringHeader(<<"gzip">>) }

SeedPromise == 0

----------------------------------------------------------------------------
(* Pure helpers *)

Min(a, b) == IF a <= b THEN a ELSE b

byteLength(buffer) == Len(buffer)

LowerCase(name) ==
    IF name = "GZIP" THEN "gzip" ELSE IF name = "BR" THEN "br" ELSE name

\* The tokens of a header text: split at the commas, blanks trimmed.
RECURSIVE SplitHeader(_, _)
SplitHeader(text, token) ==
    IF text = <<>> THEN <<token>>
    ELSE IF Head(text) = "," THEN <<token>> \o SplitHeader(Tail(text), "")
    ELSE IF Head(text) = " " THEN SplitHeader(Tail(text), token)
    ELSE SplitHeader(Tail(text), Head(text))

\* asHeaderArray: an absent (or empty) header is the empty list, a string
\* header is split at its commas, an array header is taken item by item; the
\* tokens are put in lower case.
asHeaderArray(value) ==
    LET tokens == IF value.kind = "absent" \/ value.items = <<>> THEN <<>>
                  ELSE IF value.kind = "string" THEN SplitHeader(value.items, "")
                  ELSE value.items
    IN  [i \in 1..Len(tokens) |-> LowerCase(tokens[i])]

\* Variant: there is no reaction on contentEncodings.
EncodingsChangedNever(old, new) == FALSE

\* Variant: the encoding lists are compared as objects, and asHeaderArray
\* makes a new one each time.
EncodingsChangedByReference(old, new) == TRUE

\* @computed.struct: the reaction runs when the list changed structurally.
EncodingsChanged(old, new) == old # new

contentEncodingsOf(h) == asHeaderArray(h)

\* The encoder service: it applies the named encodings in order (each one here
\* puts its marker byte in front of its input), and returns its input
\* unchanged for the empty list.  Whether a call fails is not decided by
\* its inputs.
EncodingMarker(name) == IF name = "gzip" THEN 31 ELSE 206

RECURSIVE encodeBody(_, _)
encodeBody(decodedBytes, encodings) ==
    IF encodings = <<>> THEN decodedBytes
    ELSE encodeBody(<<EncodingMarker(Head(encodings))>> \o decodedBytes, Tail(encodings))

\* Variant: the constructor always starts an encoding task.
IsSeededNever(initialEncodedBody) == FALSE

\* if (initialEncodedBody): every Buffer object is truthy, the empty one too.
IsSeeded(initialEncodedBody) == initialEncodedBody # Undefined

\* Variant: the length is read without the guards for undefined and 0.
contentLengthOfUnguarded(encoded) == byteLength(encoded)

\* this._encodedBody?.byteLength || 0
contentLengthOf(encoded) ==
    IF encoded = Undefined THEN 0
    ELSE IF byteLength(encoded) # 0 THEN byteLength(encoded) ELSE 0

\* Variant: the identity check left out.
IsLatestAlways(current, encodeBodyPromise) == TRUE

\* Variant: the identity check the wrong way round.
IsLatestInverted(current, encodeBodyPromise) == current # encodeBodyPromise

\* if (this._encodingPromise === encodeBodyPromise)
IsLatest(current, encodeBodyPromise) == current = encodeBodyPromise

\* Variant: the new body is not stored.
updateDecodedBodyDropped(current, newBody) == current

\* this._decodedBody = newBody
updateDecodedBody(current, newBody) == newBody

\* Variant: the pointer is set for the first task only.
AssignEncodingPromiseOnce(current, encodeBodyPromise) ==
    IF current = None THEN encodeBodyPromise ELSE current

\* this._encodingPromise = encodeBodyPromise
AssignEncodingPromise(current, encodeBodyPromise) == encodeBodyPromise

\* Variant: the fallback is the payload the task was started with.
CatchValueCaptured(currentDecoded, task) == task.decoded

\* Variant: the pointer is assigned before the async function is entered.
PointerAtEncodeCallAssignedFirst(current, encodeBodyPromise) == encodeBodyPromise

\* What this._encodingPromise is when encodeBody is called: the async function
\* runs up to its await, and so makes the call, while the right-hand side of
\* the assignment of line 71 is still being evaluated.
PointerAtEncodeCall(current, encodeBodyPromise) == current

\* .catch((e) => { ...; return this._decodedBody; })
CatchValue(currentDecoded, task) == currentDecoded

\* Variant: the logged context is read again when the call fails.
LoggedEncodingsCurrent(currentEncodings, task) == currentEncodings

\* logError(e, { encodings })
LoggedEncodings(currentEncodings, task) == task.encodings

\* Variant: no catch handler, the encoder's rejection propagates.
PromiseOutcomeUncaught(encodeOutcome) == encodeOutcome

\* Variant: a task that finds itself stale returns nothing.
ReturnedValueOnlyIfLatest(isLatest, encodedValue) ==
    IF isLatest THEN encodedValue ELSE Undefined

\* return encodedBody
ReturnedValue(isLatest, encodedValue) == encodedValue

\* The promise of the async function: the catch handler absorbs the encoder's
\* rejection, so the function returns encodedBody in both cases.
PromiseOutcome(encodeOutcome) == "fulfilled"

----------------------------------------------------------------------------
(* lodash throttle = debounce(func, wait, {leading, maxWait: wait, trailing}) *)

\* Variant: the throttle made with leading: false.
leadingOff == FALSE

leading == TRUE

\* Variant: the throttle made with trailing: false.
trailingOff == FALSE

trailing == TRUE

maxing == TRUE

maxWait == wait

InitialThrottle ==
    [lastArgs |-> FALSE, timerId |-> None,
     lastCallTime |-> None, lastInvokeTime |-> 0]

shouldInvoke(th, time) ==
    \/ th.lastCallTime = None
    \/ time - th.lastCallTime >= wait
    \/ time - th.lastCallTime < 0
    \/ (maxing /\ time - th.lastInvokeTime >= maxWait)

remainingWait(th, time) ==
    LET timeWaiting == wait - (time - th.lastCallTime)
    IN  IF maxing THEN Min(timeWaiting, maxWait - (time - th.lastInvokeTime))
        ELSE timeWaiting

\* Each of the following returns the new closure state and whether func was invoked.
invokeFunc(th, time) ==
    [th |-> [th EXCEPT !.lastArgs = FALSE, !.lastInvokeTime = time], invoked |-> TRUE]

leadingEdge(th, time) ==
    LET armed == [th EXCEPT !.lastInvokeTime = time, !.timerId = time + wait]
    IN  IF leading THEN invokeFunc(armed, time) ELSE [th |-> armed, invoked |-> FALSE]

\* Variant: the pending call is dropped at the trailing edge.
trailingEdgeDropped(th, time) ==
    [th |-> [th EXCEPT !.timerId = None, !.lastArgs = FALSE], invoked |-> FALSE]

trailingEdge(th, time) ==
    LET cleared == [th EXCEPT !.timerId = None]
    IN  IF trailing /\ cleared.lastArgs THEN invokeFunc(cleared, time)
        ELSE [th |-> [cleared EXCEPT !.lastArgs = FALSE], invoked |-> FALSE]

\* Variant: the timer callback only clears the timer.
timerExpiredIdle(th, time) ==
    [th |-> [th EXCEPT !.timerId = None], invoked |-> FALSE]

timerExpired(th, time) ==
    IF shouldInvoke(th, time) THEN trailingEdge(th, time)
    ELSE [th |-> [th EXCEPT !.timerId = time + remainingWait(th, time)], invoked |-> FALSE]

debounced(th, time) ==
    LET isInvoking == shouldInvoke(th, time)
        called == [th EXCEPT !.lastArgs = TRUE, !.lastCallTime = time]
    IN  IF isInvoking /\ called.timerId = None THEN leadingEdge(called, time)
        ELSE IF isInvoking /\ maxing
             THEN invokeFunc([called EXCEPT !.timerId = time + wait], time)
        ELSE [th |-> [called EXCEPT !.timerId =
                         IF called.timerId = None THEN time + wait ELSE called.timerId],
              invoked |-> FALSE]

----------------------------------------------------------------------------
(* The throttled function: one encoding task *)

\* Variant: the run works on the value that an earlier trigger of the same
\* burst saw, the one that made the leading run.
InputAtRunCaptured(current, captured) == captured

\* The throttled function takes no arguments: this.contentEncodings and
\* this._decodedBody are read when the function body runs.
InputAtRun(current, captured) == current

\* The async function runs synchronously up to its await: it reads
\* contentEncodings and calls encodeBody(this._decodedBody, encodings).
\* pointerAtCall, newestAtSettle and settledAfterNewer are history: what
\* this._encodingPromise was when encodeBody was called, the newest task in
\* existence when this task's encode call settled, and whether a task started
\* later had settled before this one.
NewTask(decoded, h, time, pointerAtCall) ==
    [decoded   |-> decoded,
     encodings |-> contentEncodingsOf(h),
     encode    |-> "pending",
     promise   |-> "pending",
     value     |-> Undefined,
     startedAt |-> time,
     pointerAtCall |-> pointerAtCall,
     newestAtSettle |-> 0,
     settledAfterNewer |-> FALSE]

\* updateEncodedBody() as seen by its callers: the throttle decides whether the
\* function body runs; if it does, the new task becomes this._encodingPromise.
UpdateEncodedBody(decoded, h) ==
    LET r == debounced(throttle, now)
    IN  /\ throttle' = r.th
        /\ calls' = Append(calls, now)
        /\ IF r.invoked
           THEN /\ tasks' = Append(tasks, NewTask(decoded, h, now,
                                                PointerAtEncodeCall(encodingPromise, Len(tasks) + 1)))
                /\ encodingPromise' = AssignEncodingPromise(encodingPromise, Len(tasks) + 1)
           ELSE UNCHANGED <<tasks, encodingPromise>>

----------------------------------------------------------------------------
(* The configuration components, while none of them is mounted *)

\* selectedHostId when no host is selected.
NoHostId == ""

FridaIdle ==
    /\ fridaHosts = <<>>
    /\ selectedHostId = NoHostId
    /\ searchInput = ""
    /\ inProgressHostIds = <<>>
    /\ inProgressTargetIds = <<>>
    /\ activations = <<>>
    /\ reports = <<>>

TransformIdle ==
    /\ transformRequest = <<>>
    /\ transformResponse = <<>>
    /\ upload = "none"

StaticIdle ==
    /\ headers = <<>>
    /\ body = <<>>

ConfigIdle == FridaIdle /\ TransformIdle /\ StaticIdle

----------------------------------------------------------------------------
(* Construction *)

\* new EditableBody(initialDecodedBody, initialEncodedBody, { getContentEncodingHeader }),
\* run at StartTime: the fields of the instance when the constructor returns.
Constructed(initialDecodedBody, initialEncodedBody, h) ==
    LET r == debounced(InitialThrottle, StartTime)
        seeded == IsSeeded(initialEncodedBody)
    IN  [decodedBody     |-> initialDecodedBody,
         header          |-> h,
         encodedBody     |-> IF seeded THEN initialEncodedBody ELSE Undefined,
         encodingPromise |-> IF seeded THEN SeedPromise
                             ELSE IF r.invoked THEN AssignEncodingPromise(None, 1) ELSE None,
         tasks           |-> IF ~seeded /\ r.invoked
                             THEN <<NewTask(initialDecodedBody, h, StartTime,
                                            PointerAtEncodeCall(None, 1))>>
                             ELSE <<>>,
         throttle        |-> IF seeded THEN InitialThrottle ELSE r.th,
         errorLog        |-> <<>>,
         triggers        |-> 0,
         calls           |-> IF seeded THEN <<>> ELSE <<StartTime>>,
         seed            |-> initialEncodedBody,
         lastSet         |-> initialDecodedBody,
         applied         |-> initialEncodedBody]

\* The fields of the instance that runs, as one record.
This ==
    [decodedBody     |-> decodedBody,
     header          |-> header,
     encodedBody     |-> encodedBody,
     encodingPromise |-> encodingPromise,
     tasks           |-> tasks,
     throttle        |-> throttle,
     errorLog        |-> errorLog,
     triggers        |-> triggers,
     calls           |-> calls,
     seed            |-> seed,
     lastSet         |-> lastSet,
     applied         |-> applied]

\* No second instance.
Alone == [alone |-> TRUE]

\* The instance that runs has the fields c.
Holds(c) ==
    /\ decodedBody = c.decodedBody
    /\ header = c.header
    /\ encodedBody = c.encodedBody
    /\ encodingPromise = c.encodingPromise
    /\ tasks = c.tasks
    /\ throttle = c.throttle
    /\ errorLog = c.errorLog
    /\ triggers = c.triggers
    /\ calls = c.calls
    /\ seed = c.seed
    /\ lastSet = c.lastSet
    /\ applied = c.applied

\* No EditableBody is at work: one seeded instance, left alone.
BodyIdle ==
    /\ now = StartTime
    /\ Holds(Constructed(<<>>, <<>>, AbsentHeader))
    /\ parked = Alone

Init ==
    \E initialDecodedBody \in Buffers, initialEncodedBody \in Buffers \cup {Undefined}, h \in InitialHeaders :
        /\ now = StartTime
        /\ Holds(Constructed(initialDecodedBody, initialEncodedBody, h))
        /\ parked = Alone
        /\ ConfigIdle

----------------------------------------------------------------------------
(* Operations *)

\* updateDecodedBody(newBody), then the reaction on _decodedBody, which runs
\* when the reference changed.  fresh = FALSE is the call that passes the very
\* Buffer object already held.
UpdateDecodedBody(newBody, fresh) ==
    /\ Len(calls) < MaxCalls
    /\ fresh \/ newBody = decodedBody
    /\ decodedBody' = updateDecodedBody(decodedBody, newBody)
    /\ lastSet' = newBody
    /\ IF fresh
       THEN triggers' = triggers + 1 /\ UpdateEncodedBody(decodedBody', header)
       ELSE UNCHANGED <<triggers, throttle, calls, tasks, encodingPromise>>
    /\ UNCHANGED <<now, header, encodedBody, errorLog, seed, applied, parked, configVars>>

\* The header accessor's value changes; the reaction on the computed.struct
\* contentEncodings runs when the list changed structurally.
HeaderChange(h) ==
    /\ Len(calls) < MaxCalls
    /\ h # header
    /\ header' = h
    /\ IF EncodingsChanged(contentEncodingsOf(header), contentEncodingsOf(h))
       THEN triggers' = triggers + 1 /\ UpdateEncodedBody(decodedBody, h)
       ELSE UNCHANGED <<triggers, throttle, calls, tasks, encodingPromise>>
    /\ UNCHANGED <<now, decodedBody, encodedBody, errorLog, seed, lastSet, applied, parked,
                   configVars>>

\* The throttle's timer fires.
TimerFires ==
    /\ throttle.timerId # None
    /\ now >= throttle.timerId
    /\ LET r == timerExpired(throttle, now)
           read == NewTask(decodedBody, header, now,
                           PointerAtEncodeCall(encodingPromise, Len(tasks) + 1))
           earlier == IF Len(tasks) > 0 THEN tasks[Len(tasks)] ELSE read
       IN  /\ throttle' = r.th
           /\ IF r.invoked
              THEN /\ tasks' = Append(tasks,
                                      [read EXCEPT !.decoded = InputAtRun(@, earlier.decoded),
                                                   !.encodings = InputAtRun(@, earlier.encodings)])
                   /\ encodingPromise' = AssignEncodingPromise(encodingPromise, Len(tasks) + 1)
              ELSE UNCHANGED <<tasks, encodingPromise>>
    /\ UNCHANGED <<now, decodedBody, header, encodedBody, errorLog, triggers, calls, seed,
                   lastSet, applied, parked, configVars>>

\* The encodeBody call of task t settles, with the encoder's bytes or with a
\* rejection; the catch handler and the rest of the async function follow as
\* microtasks.
EncodeSettles(t, rejected) ==
    /\ t \in 1..Len(tasks)
    /\ tasks[t].encode = "pending"
    /\ LET result == encodeBody(tasks[t].decoded, tasks[t].encodings)
           encodedValue == IF rejected THEN CatchValue(decodedBody, tasks[t]) ELSE result
           outcome == PromiseOutcome(IF rejected THEN "rejected" ELSE "fulfilled")
       IN  /\ errorLog' = IF rejected
                          THEN Append(errorLog,
                                      [e |-> t,
                                       encodings |-> LoggedEncodings(contentEncodingsOf(header), tasks[t])])
                          ELSE errorLog
           /\ encodedBody' = IF IsLatest(encodingPromise, t) THEN encodedValue ELSE encodedBody
           /\ applied' = IF encodingPromise = t THEN encodedValue ELSE applied
           /\ tasks' = [tasks EXCEPT ![t].encode = IF rejected THEN "rejected" ELSE "resolved",
                                     ![t].promise = outcome,
                                     ![t].value = IF outcome = "fulfilled"
                                                  THEN ReturnedValue(IsLatest(encodingPromise, t), encodedValue)
                                                  ELSE Undefined,
                                     ![t].newestAtSettle = Len(tasks),
                                     ![t].settledAfterNewer =
                                         \E u \in (t + 1)..Len(tasks) : tasks[u].encode # "pending"]
    /\ UNCHANGED <<now, decodedBody, header, encodingPromise, throttle, triggers, calls, seed, lastSet,
                   parked, configVars>>

\* The deadlines of the pending throttle timers, of every instance.
Deadlines ==
    ({throttle.timerId} \cup (IF parked = Alone THEN {} ELSE {parked.throttle.timerId})) \ {None}

\* Time passes, up to the next timer deadline: timers fire on time.
Tick ==
    /\ now < MaxTime
    /\ \A d \in Deadlines : now < d
    /\ now' = IF Deadlines # {}
              THEN Min(now + Quantum, CHOOSE d \in Deadlines : \A e \in Deadlines : d <= e)
              ELSE now + Quantum
    /\ UNCHANGED <<decodedBody, header, encodedBody, encodingPromise, tasks, throttle,
                   errorLog, triggers, calls, seed, lastSet, applied, parked, configVars>>

Next ==
    \/ \E newBody \in Buffers, fresh \in BOOLEAN : UpdateDecodedBody(newBody, fresh)
    \/ \E h \in Headers : HeaderChange(h)
    \/ TimerFires
    \/ \E t \in 1..Len(tasks), rejected \in BOOLEAN : EncodeSettles(t, rejected)
    \/ Tick

Spec == Init /\ [][Next]_vars

----------------------------------------------------------------------------
(* Two instances *)

\* updateEncodedBody = _.throttle(...) is an instance field: every instance
\* makes its own throttled function, with its own closure state.  own is the
\* state kept for the instance, other the state kept for the other one.
ThrottleOfShared(own, other) == other

ThrottleOf(own, other) == own

\* The calls of the throttled function that the two instances have made, together.
FleetCalls == Len(calls) + Len(parked.calls)

\* Two instances, built one after the other in the same tick: a seeded one
\* that runs first, and an unseeded one.
FleetInit ==
    /\ now = StartTime
    /\ Holds(Constructed(<<1>>, <<1>>, AbsentHeader))
    /\ parked = Constructed(<<>>, Undefined, StringHeader(<<"gzip">>))
    /\ ConfigIdle

\* The thread turns to the other instance: the next reaction, timer or
\* settled promise is one of that instance.
Switch ==
    /\ parked # Alone
    /\ decodedBody' = parked.decodedBody
    /\ header' = parked.header
    /\ encodedBody' = parked.encodedBody
    /\ encodingPromise' = parked.encodingPromise
    /\ tasks' = parked.tasks
    /\ throttle' = ThrottleOf(parked.throttle, throttle)
    /\ errorLog' = parked.errorLog
    /\ triggers' = parked.triggers
    /\ calls' = parked.calls
    /\ seed' = parked.seed
    /\ lastSet' = parked.lastSet
    /\ applied' = parked.applied
    /\ parked' = [This EXCEPT !.throttle = ThrottleOf(throttle, parked.throttle)]
    /\ UNCHANGED <<now, configVars>>

FleetNext ==
    \/ \E newBody \in Buffers : FleetCalls < MaxCalls /\ UpdateDecodedBody(newBody, TRUE)
    \/ TimerFires
    \/ \E t \in 1..Len(tasks), rejected \in BOOLEAN : EncodeSettles(t, rejected)
    \/ Tick
    \/ Switch

FleetSpec == FleetInit /\ [][FleetNext]_vars

----------------------------------------------------------------------------
(* The getters *)

contentLength == contentLengthOf(encodedBody)

encoded == encodingPromise

decoded == decodedBody

Settled(t) == tasks[t].encode # "pending"

TypeOK ==
    /\ now \in StartTime..MaxTime
    /\ decodedBody \in Buffers
    /\ header \in Headers
    /\ encodingPromise \in 0..Len(tasks)
    /\ triggers \in 0..MaxCalls
    /\ Len(tasks) <= Len(calls)

----------------------------------------------------------------------------
(* Claims *)

SettlesNow(t) == tasks[t].encode = "pending" /\ tasks'[t].encode # "pending"

\* C1: when the encode call of a task settles, the task writes its result into
\* _encodedBody if _encodingPromise still refers to it, and otherwise leaves
\* _encodedBody and contentLength exactly as they were.
C1_StaleResultDiscarded ==
    [][\A t \in 1..Len(tasks) :
          SettlesNow(t) =>
              IF encodingPromise = t
              THEN encodedBody' = tasks'[t].value
              ELSE /\ encodedBody' = encodedBody
                   /\ contentLengthOf(encodedBody') = contentLengthOf(encodedBody)]_vars

\* A task has settled after a newer one was started, with bytes other than the
\* committed ones.
C1_Witness ==
    \E t \in 1..Len(tasks) :
        /\ Settled(t)
        /\ tasks[t].newestAtSettle > t
        /\ tasks[t].value # encodedBody
        /\ encodedBody # Undefined

\* C2: last scheduled wins.  If task B, the last one started, was started
\* before task A settled, then once both have settled the committed
\* _encodedBody and contentLength are B's, whichever settled first.
C2_LastScheduledWins ==
    \A a, b \in 1..Len(tasks) :
        (/\ a < b
         /\ b = Len(tasks)
         /\ Settled(a) /\ Settled(b)
         /\ tasks[a].newestAtSettle >= b)
        => /\ encodedBody = tasks[b].value
           /\ contentLength = byteLength(tasks[b].value)

\* B settled first and A afterwards, with different bytes of different lengths.
C2_Witness ==
    \E a, b \in 1..Len(tasks) :
        /\ a < b
        /\ b = Len(tasks)
        /\ Settled(a) /\ Settled(b)
        /\ tasks[a].settledAfterNewer
        /\ byteLength(tasks[a].value) # byteLength(tasks[b].value)
        /\ encodedBody = tasks[b].value

\* C3 as stated: when the encode call that a task made with (d, s) rejects
\* while the task is current, the committed _encodedBody is d.
C3_FailOpenWithCapturedPayload ==
    [][\A t \in 1..Len(tasks) :
          (SettlesNow(t) /\ tasks'[t].encode = "rejected" /\ encodingPromise = t)
          => encodedBody' = tasks[t].decoded]_vars

\* C3, amended: when the encode call of a task rejects while the task is
\* current, the committed _encodedBody is the decoded payload held at the
\* moment of the rejection; that is d unless the payload was replaced since
\* the task started.
C3_FailOpenWithCurrentPayload ==
    [][\A t \in 1..Len(tasks) :
          (SettlesNow(t) /\ tasks'[t].encode = "rejected" /\ encodingPromise = t)
          => /\ encodedBody' = decodedBody
             /\ byteLength(encodedBody') = byteLength(decodedBody)]_vars

\* The current task has rejected after the payload it was started with was
\* replaced, and the replacement is what was committed.
C3_Witness ==
    \E t \in 1..Len(tasks) :
        /\ encodingPromise = t
        /\ tasks[t].encode = "rejected"
        /\ tasks[t].decoded # tasks[t].value
        /\ encodedBody = tasks[t].value
        /\ encodedBody = decodedBody

LoggedFor(t) == { i \in 1..Len(errorLog) : errorLog[i].e = t }

\* C4: logError is called exactly once for each encode call that rejects, with
\* the encoding list that the task read at its start and passed to the
\* encoder; it is not called for a call that succeeds, stale or not.
C4_ErrorLoggedOncePerRejection ==
    /\ \A t \in 1..Len(tasks) :
          Cardinality(LoggedFor(t)) = IF tasks[t].encode = "rejected" THEN 1 ELSE 0
    /\ \A i \in 1..Len(errorLog) :
          /\ errorLog[i].e \in 1..Len(tasks)
          /\ errorLog[i].encodings = tasks[errorLog[i].e].encodings

\* A call has rejected after the header changed the encoding list, and another
\* task has succeeded stale.
C4_Witness ==
    /\ \E i \in 1..Len(errorLog) : errorLog[i].encodings # contentEncodingsOf(header)
    /\ \E t \in 1..Len(tasks) : tasks[t].encode = "resolved" /\ tasks[t].newestAtSettle > t

IsBytes(b) == \A i \in 1..Len(b) : b[i] \in 0..255

\* C5: a failure of the encoder is never surfaced: the promise of every task
\* whose encode call has settled is fulfilled with bytes, whether the call
\* fulfilled or rejected, and _encodedBody stays undefined or bytes, so that
\* contentLength is a number.
C5_EncodeFailureAbsorbed ==
    /\ \A t \in 1..Len(tasks) :
          /\ tasks[t].promise # "rejected"
          /\ Settled(t) => (tasks[t].promise = "fulfilled" /\ IsBytes(tasks[t].value))
    /\ encodedBody = Undefined \/ IsBytes(encodedBody)
    /\ contentLength \in Nat
    /\ IsBytes(decoded)

\* The encode call of the current task has rejected and its promise is
\* fulfilled.
C5_Witness ==
    \E t \in 1..Len(tasks) :
        /\ encoded = t
        /\ tasks[t].encode = "rejected"
        /\ tasks[t].promise = "fulfilled"

BurstTasks(i) == { t \in 1..Len(tasks) : tasks[t].startedAt >= calls[i] }

\* Call i of the throttled function comes after a quiet period: no call and no
\* run in the throttle interval before it.
Quiet(i) ==
    /\ i = 1 \/ calls[i] - calls[i - 1] >= wait
    /\ \A t \in 1..Len(tasks) :
          tasks[t].startedAt >= calls[i] \/ calls[i] - tasks[t].startedAt >= wait

\* C6: throttling coalescence.  When the throttled function is called three
\* times within one throttle interval, the first call coming after a quiet
\* period, the encoder is invoked for the first call at once, not for the
\* second and third, and exactly once more when the timer has fired, one
\* interval after the first call: twice in total.
C6_ThrottleCoalesces ==
    \A i \in 1..Len(calls) :
        (/\ i + 2 = Len(calls)
         /\ Quiet(i)
         /\ calls[i + 2] - calls[i] < wait)
        => /\ \E t \in BurstTasks(i) : tasks[t].startedAt = calls[i]
           /\ throttle.timerId # None => Cardinality(BurstTasks(i)) = 1
           /\ throttle.timerId = None =>
                 /\ Cardinality(BurstTasks(i)) = 2
                 /\ \E t \in BurstTasks(i) : tasks[t].startedAt = calls[i] + wait

\* A seeded instance was given three different payloads within one interval
\* and the trailing run, made with the last of them, has happened.
C6_Witness ==
    /\ seed # Undefined
    /\ triggers = 3
    /\ Len(calls) = 3
    /\ calls[3] - calls[1] < wait
    /\ calls[3] > calls[1]
    /\ throttle.timerId = None
    /\ Len(tasks) = 2
    /\ tasks[2].decoded # tasks[1].decoded
    /\ tasks[2].decoded = decodedBody

\* C7 as stated: two consecutive starts of an encoding task are at least one
\* throttle interval apart.
C7_StartsOneIntervalApart ==
    \A t \in 2..Len(tasks) : tasks[t].startedAt - tasks[t - 1].startedAt >= wait

\* C8: seeded construction.  Until the first trigger after a construction with
\* an initial encoded body, the encoder has not been invoked, `encoded` is the
\* promise made from the seed, _encodedBody is the seed and contentLength is
\* its byte length.
C8_SeededConstructionSkipsEncode ==
    (seed # Undefined /\ triggers = 0)
    => /\ Len(tasks) = 0
       /\ encoded = SeedPromise
       /\ encodedBody = seed
       /\ contentLength = byteLength(seed)

\* A seeded instance has lived for a throttle interval without a trigger.
C8_Witness ==
    /\ seed # Undefined
    /\ seed # <<>>
    /\ triggers = 0
    /\ now >= StartTime + wait

\* C9: `decoded` is the payload of the last updateDecodedBody call, or the
\* constructor's initial decoded body when there was none; no encoding task
\* changes it.
C9_DecodedIsLastSet ==
    decoded = lastSet

\* The payload was replaced and a task started with the earlier payload has
\* since settled with other bytes than the payload now held.
C9_Witness ==
    \E t \in 1..Len(tasks) :
        /\ Settled(t)
        /\ tasks[t].decoded # decoded
        /\ tasks[t].value # decoded
        /\ triggers > 0

\* C10: contentLength is the byte length of the last committed _encodedBody
\* (the seed, or the result of the last task that settled while current), and
\* 0 when nothing has been committed.
C10_ContentLengthIsAppliedLength ==
    contentLength = IF applied = Undefined THEN 0 ELSE byteLength(applied)

\* One task is pending and another has settled stale with a result of another
\* length than contentLength.
C10_Witness ==
    /\ \E t \in 1..Len(tasks) : ~Settled(t)
    /\ \E t \in 1..Len(tasks) :
          /\ Settled(t)
          /\ tasks[t].newestAtSettle > t
          /\ byteLength(tasks[t].value) # contentLength


NewestTask == IF Len(tasks) = 0 THEN SeedPromise ELSE Len(tasks)

\* C11: `encoded` is the promise of the task started last, or the promise made
\* from the seed when no task was ever started (which only a seeded instance
\* can show); it never refers to an older task once a newer one exists.
C11_EncodedIsNewestTask ==
    /\ encoded = NewestTask
    /\ Len(tasks) = 0 => seed # Undefined

\* Two tasks are pending at once and `encoded` is the later one.
C11_Witness ==
    /\ Len(tasks) >= 2
    /\ ~Settled(Len(tasks) - 1)
    /\ ~Settled(Len(tasks))
    /\ encoded = Len(tasks)

\* C12: a superseded task is not cancelled.  While its encode call is pending
\* the call can still settle, either way; when it settles, the task's own
\* promise is fulfilled with the bytes this task computed (the encoder's
\* output for its inputs, or the decoded payload held when the call failed),
\* and _encodedBody is left alone.
C12_SupersededTaskStillCompletes ==
    /\ [](\A t \in 1..Len(tasks) :
             (t # encodingPromise /\ ~Settled(t))
             => (ENABLED EncodeSettles(t, FALSE)) /\ (ENABLED EncodeSettles(t, TRUE)))
    /\ [][\A t \in 1..Len(tasks) :
             (SettlesNow(t) /\ t # encodingPromise)
             => /\ tasks'[t].promise = "fulfilled"
                /\ tasks'[t].value = IF tasks'[t].encode = "rejected"
                                     THEN decodedBody
                                     ELSE encodeBody(tasks[t].decoded, tasks[t].encodings)
                /\ encodedBody' = encodedBody]_vars

\* A superseded task has settled, its promise fulfilled with bytes that are
\* not the committed ones.
C12_Witness ==
    \E t \in 1..Len(tasks) :
        /\ tasks[t].newestAtSettle > t
        /\ tasks[t].promise = "fulfilled"
        /\ tasks[t].value = encodeBody(tasks[t].decoded, tasks[t].encodings)
        /\ tasks[t].value # encodedBody
        /\ encodingPromise # t


\* C13: idempotent header equality.  A change of the header accessor's value
\* to one that normalizes to the same ordered list of encoding tokens starts
\* no task, leaves _encodingPromise alone and is no call of the throttled
\* function.
C13_SameEncodingsNoTask ==
    [][(header' # header /\ asHeaderArray(header') = asHeaderArray(header))
       => /\ tasks' = tasks
          /\ encodingPromise' = encodingPromise
          /\ throttle' = throttle
          /\ calls' = calls]_vars

\* A seeded instance constructed with the header "gzip" now has the header
\* ["gzip"], and no task was started.
C13_Witness ==
    /\ header = ArrayHeader(<<"gzip">>)
    /\ seed # Undefined
    /\ triggers = 0
    /\ Len(tasks) = 0
    /\ encodingPromise = SeedPromise


StartsNow == Len(tasks') = Len(tasks) + 1

\* C14: no-encoding passthrough.  A run with an empty encoding list still makes
\* its encode call, with the decoded payload and the empty list; when that call
\* returns its input unchanged and the task is current, _encodedBody is the
\* payload the call was given and contentLength is its byte length.
C14_EmptyListPassthrough ==
    /\ [][(StartsNow /\ contentEncodingsOf(header') = <<>>)
          => LET t == Len(tasks')
             IN  /\ tasks'[t].encode = "pending"
                 /\ tasks'[t].encodings = <<>>
                 /\ tasks'[t].decoded = decodedBody']_vars
    /\ [][\A t \in 1..Len(tasks) :
             (/\ SettlesNow(t)
              /\ tasks[t].encodings = <<>>
              /\ tasks'[t].encode = "resolved"
              /\ encodingPromise = t)
             => /\ encodedBody' = tasks[t].decoded
                /\ contentLengthOf(encodedBody') = byteLength(tasks[t].decoded)]_vars

\* The current task was started with a non-empty payload and no encoding, has
\* succeeded, and contentLength is the payload's length.
C14_Witness ==
    \E t \in 1..Len(tasks) :
        /\ encodingPromise = t
        /\ tasks[t].encodings = <<>>
        /\ tasks[t].encode = "resolved"
        /\ tasks[t].decoded # <<>>
        /\ decodedBody = tasks[t].decoded
        /\ contentLength = byteLength(decodedBody)


\* Nothing is left to happen unless a new trigger comes: no timer is set and
\* every encode call has settled.
Quiescent ==
    /\ throttle.timerId = None
    /\ \A t \in 1..Len(tasks) : Settled(t)

ExpectedEncodedBody ==
    IF Len(tasks) > 0 /\ tasks[Len(tasks)].encode = "rejected"
    THEN decodedBody
    ELSE encodeBody(decodedBody, contentEncodingsOf(header))

C17_PointerSetBeforeEncodeCall ==
    \A t \in 1..Len(tasks) : tasks[t].pointerAtCall = t

PreviousPromise(t) ==
    IF t > 1 THEN t - 1 ELSE IF seed # Undefined THEN SeedPromise ELSE None

\* C17, amended: within one run of updateEncodedBody, encodeBody is invoked
\* first, while _encodingPromise still is the previous promise (none in an
\* unseeded constructor), and _encodingPromise is set to the new task in the
\* same synchronous step, so before the encode call can settle.
C17_PointerSetInSameStepAfterEncodeCall ==
    /\ [](\A t \in 1..Len(tasks) :
             /\ tasks[t].pointerAtCall = PreviousPromise(t)
             /\ tasks[t].pointerAtCall # t
             /\ Settled(t) => tasks[t].newestAtSettle >= t)
    /\ [][StartsNow => (encodingPromise' = Len(tasks') /\ tasks'[Len(tasks')].encode = "pending")]_vars

\* A task was started while an earlier one was current, and is current now.
C17_Witness ==
    \E t \in 2..Len(tasks) :
        /\ tasks[t].pointerAtCall = t - 1
        /\ encodingPromise = t
        /\ ~Settled(t)


\* C18 as stated: whenever a task's result is written to _encodedBody, the
\* result was computed from the decoded payload and the encoding list that are
\* current at that step.
C18_CommittedFromCurrentInputs ==
    [][\A t \in 1..Len(tasks) :
          (SettlesNow(t) /\ encodingPromise = t)
          => /\ tasks[t].decoded = decodedBody
             /\ tasks[t].encodings = contentEncodingsOf(header)]_vars

\* C18, amended: whenever _encodedBody is written, the result is that of the
\* task started last, computed from the decoded payload and the encoding list
\* that this task read when it started (or, if its encode call rejected, the
\* decoded payload held now); the result of a superseded task is never
\* committed.  The inputs may have been replaced since, by a trigger whose
\* run the throttle has put off.
C18_CommittedFromNewestTask ==
    [][(encodedBody' # encodedBody \/ \E t \in 1..Len(tasks) : SettlesNow(t) /\ encodingPromise = t)
       => LET t == Len(tasks)
          IN  /\ t > 0
              /\ SettlesNow(t)
              /\ encodedBody' = IF tasks'[t].encode = "rejected"
                                THEN decodedBody
                                ELSE encodeBody(tasks[t].decoded, tasks[t].encodings)
              /\ (tasks[t].decoded # decodedBody \/ tasks[t].encodings # contentEncodingsOf(header))
                 => throttle.lastArgs /\ throttle.timerId # None]_vars

\* The current task has committed the encoding of a payload that had already
\* been replaced, and the throttled run for the replacement is still to come.
C18_Witness ==
    \E t \in 1..Len(tasks) :
        /\ encodingPromise = t
        /\ tasks[t].encode = "resolved"
        /\ tasks[t].decoded # decodedBody
        /\ encodedBody = encodeBody(tasks[t].decoded, tasks[t].encodings)
        /\ encodedBody # encodeBody(decodedBody, contentEncodingsOf(header))
        /\ throttle.lastArgs


TriggersNow == triggers' = triggers + 1

\* The instance has had no call of the throttled function and no run of it
\* during the throttle interval that ends now.
QuietNow ==
    /\ Len(calls) = 0 \/ now - calls[Len(calls)] >= wait
    /\ \A t \in 1..Len(tasks) : now - tasks[t].startedAt >= wait

\* C19: leading edge.  A trigger (decoded body replaced, encoding list changed)
\* that comes after a quiet throttle interval starts a new encoding task in
\* the same step, with the inputs of that trigger.
C19_LeadingEdgeRunsAtOnce ==
    [][(TriggersNow /\ QuietNow)
       => /\ StartsNow
          /\ tasks'[Len(tasks')].startedAt = now
          /\ tasks'[Len(tasks')].decoded = decodedBody'
          /\ tasks'[Len(tasks')].encodings = contentEncodingsOf(header')
          /\ encodingPromise' = Len(tasks')]_vars

\* A task was started by a trigger, not by the constructor nor by the timer,
\* a full interval or more after the task before it.
C19_Witness ==
    \E t \in 2..Len(tasks) :
        /\ tasks[t].startedAt - tasks[t - 1].startedAt >= wait
        /\ \E i \in 2..Len(calls) :
              /\ calls[i] = tasks[t].startedAt
              /\ calls[i] - calls[i - 1] >= wait

\* C20: trailing edge.  A trigger is never dropped: it either starts a task in
\* its own step, or leaves the call recorded (lastArgs) with a timer running
\* that is due within one interval; a recorded call stays recorded until a
\* task is started; and when the timer fires with a call recorded it starts
\* exactly one task, at once, with the inputs then current.
C20_TriggerNeverDropped ==
    /\ [](throttle.lastArgs => (throttle.timerId # None /\ throttle.timerId <= now + wait))
    /\ [][TriggersNow
          => \/ StartsNow /\ tasks'[Len(tasks')].startedAt = now
             \/ /\ throttle'.lastArgs
                /\ tasks' = tasks]_vars
    /\ [][(throttle.lastArgs /\ ~throttle'.lastArgs) => StartsNow]_vars
    /\ [][(throttle.lastArgs /\ throttle'.timerId # throttle.timerId /\ ~TriggersNow)
          => /\ now >= throttle.timerId
             /\ StartsNow
             /\ tasks'[Len(tasks')].startedAt = now
             /\ tasks'[Len(tasks')].decoded = decodedBody
             /\ tasks'[Len(tasks')].encodings = contentEncodingsOf(header)]_vars

\* Two triggers came while an interval was running, and one task was started
\* when the interval ended, after both.
C20_Witness ==
    /\ Len(calls) = 3
    /\ Len(tasks) = 2
    /\ calls[1] = tasks[1].startedAt
    /\ calls[2] > calls[1]
    /\ calls[3] >= calls[2]
    /\ tasks[2].startedAt > calls[3]
    /\ tasks[2].startedAt = calls[1] + wait
    /\ ~throttle.lastArgs


----------------------------------------------------------------------------

\* What an instance with the fields c shows: its decoded payload, its
\* _encodedBody, its contentLength and its encoded handle.
Shown(c) == <<c.decodedBody, c.encodedBody, contentLengthOf(c.encodedBody), c.encodingPromise>>

\* The step belongs to the instance that runs: the thread does not turn to
\* the other instance.
SameInstance == parked' = parked

\* A pending trigger of the throttle state th has a timer that is due within
\* one interval and is not overdue.
TimerOnTime(th) ==
    /\ th.lastArgs => th.timerId # None
    /\ th.timerId # None => (now <= th.timerId /\ th.timerId <= now + wait)

\* C16: two instances are independent.  A step of one instance (a trigger, a
\* timer, a task start, a commit, an encode failure) leaves every field of the
\* other instance as it was, so also its decoded payload, _encodedBody,
\* contentLength and encoded handle; a turn of the thread hands each instance
\* its own fields back.  Whatever the other instance did, a trigger after an
\* interval that was quiet for this instance starts a task at once, and a
\* pending trigger of either instance keeps a timer that is due within one
\* interval, whose run starts a task at the deadline.
C16_InstancesIndependent ==
    /\ [][\/ SameInstance
          \/ parked' = This /\ This' = parked]_vars
    /\ [][SameInstance => Shown(parked') = Shown(parked)]_vars
    /\ [][(SameInstance /\ TriggersNow /\ QuietNow)
          => /\ StartsNow
             /\ tasks'[Len(tasks')].startedAt = now
             /\ encodingPromise' = Len(tasks')]_vars
    /\ [](TimerOnTime(throttle) /\ TimerOnTime(parked.throttle))
    /\ [][(SameInstance /\ throttle.lastArgs /\ throttle'.timerId # throttle.timerId /\ ~TriggersNow)
          => /\ now = throttle.timerId
             /\ StartsNow
             /\ tasks'[Len(tasks')].startedAt = now]_vars

\* Both instances have started a task; this one started a task on a trigger,
\* at once, less than an interval after a call of the other one; an encode
\* failure was logged here and none there, and the two hold different bytes.
C16_Witness ==
    /\ parked # Alone
    /\ Len(parked.tasks) >= 1
    /\ \E t \in 1..Len(tasks), i \in 1..Len(calls), j \in 1..Len(parked.calls) :
          /\ tasks[t].startedAt = calls[i]
          /\ i = 1 \/ calls[i] - calls[i - 1] >= wait
          /\ \A u \in 1..(t - 1) : calls[i] - tasks[u].startedAt >= wait
          /\ calls[i] > parked.calls[j]
          /\ calls[i] - parked.calls[j] < wait
    /\ errorLog # <<>>
    /\ parked.errorLog = <<>>
    /\ encodedBody # parked.encodedBody


----------------------------------------------------------------------------

\* The task that the step starts.
Started == tasks'[Len(tasks')]

\* C21: inputs are read at run time.  Every run of the function body passes to
\* the encoder the decoded payload and the encoding list held when the run
\* starts; a trailing-edge run, made by the timer, passes the values left by
\* the last trigger before it, whatever earlier triggers of the burst saw.
C21_InputsReadAtRunTime ==
    [][StartsNow
       => /\ Started.decoded = decodedBody'
          /\ Started.encodings = contentEncodingsOf(header')
          /\ Started.startedAt = now
          /\ ~TriggersNow => /\ Started.decoded = decodedBody
                              /\ Started.decoded = lastSet
                              /\ Started.encodings = contentEncodingsOf(header)]_vars

\* A burst of three triggers in one interval changed both the payload and the
\* encoding list after the leading run; the trailing run, one interval after
\* the first trigger, was made with the last payload and list.
C21_Witness ==
    /\ seed # Undefined
    /\ triggers = 3
    /\ Len(calls) = 3
    /\ calls[3] - calls[1] < wait
    /\ Len(tasks) = 2
    /\ tasks[1].startedAt = calls[1]
    /\ tasks[2].startedAt = calls[1] + wait
    /\ tasks[2].decoded # tasks[1].decoded
    /\ tasks[2].encodings # tasks[1].encodings
    /\ tasks[2].decoded = lastSet
    /\ tasks[2].encodings = contentEncodingsOf(header)

\* C22: a change of the encoding list is a trigger.  A step that changes the
\* list derived from the header to a structurally different one leaves the
\* decoded payload alone, counts as a trigger and calls the throttled
\* function; the call either starts a task at once, with the unchanged
\* payload and the new list, or leaves a pending trigger with a timer, whose
\* run reads the payload and the list held then.
C22_EncodingListChangeTriggers ==
    [][contentEncodingsOf(header') # contentEncodingsOf(header)
       => /\ decodedBody' = decodedBody
          /\ TriggersNow
          /\ calls' = Append(calls, now)
          /\ \/ /\ StartsNow
                /\ Started.decoded = decodedBody
                /\ Started.encodings = contentEncodingsOf(header')
                /\ Started.encodings # contentEncodingsOf(header)
                /\ encodingPromise' = Len(tasks')
             \/ /\ tasks' = tasks
                /\ throttle'.lastArgs
                /\ throttle'.timerId # None
                /\ throttle'.timerId <= now + wait]_vars

\* An unseeded instance has had one trigger only, and its second task was
\* made with the payload of the first and another encoding list: the trigger
\* was a change of the list.
C22_Witness ==
    /\ seed = Undefined
    /\ triggers = 1
    /\ Len(tasks) = 2
    /\ tasks[2].encodings # tasks[1].encodings
    /\ tasks[2].decoded = tasks[1].decoded
    /\ tasks[2].encodings = contentEncodingsOf(header)
    /\ encodingPromise = 2

\* C23: _encodedBody and contentLength change only when the encode call of the
\* current task settles.  A step in which no task settles, or in which a task
\* settles that _encodingPromise no longer refers to, leaves both unchanged:
\* updateDecodedBody, a header change, a task start, a timer, a stale result
\* and the passing of time.
C23_EncodedBodyChangesOnlyOnCommit ==
    [][(\A t \in 1..Len(tasks) : ~(SettlesNow(t) /\ encodingPromise = t))
       => /\ encodedBody' = encodedBody
          /\ contentLengthOf(encodedBody') = contentLengthOf(encodedBody)]_vars

\* The seed is still what the instance holds although the payload was replaced
\* twice, a task went stale and settled with other bytes, and the current task
\* has been pending while time passed.
C23_Witness ==
    /\ seed # Undefined
    /\ encodedBody = seed
    /\ decodedBody # <<>>
    /\ Len(tasks) = 2
    /\ tasks[1].encode = "resolved"
    /\ tasks[1].newestAtSettle = 2
    /\ tasks[1].value # encodedBody
    /\ tasks[2].encode = "pending"
    /\ encodingPromise = 2
    /\ now > tasks[2].startedAt

\* C24: the fallback is the payload held at the rejection.  When the encode
\* call of the current task rejects, the step leaves _encodedBody equal to
\* what the decoded getter returns, contentLength equal to its byte length,
\* and the task's promise fulfilled with that payload, whether or not
\* updateDecodedBody was called since the task started.
C24_FallbackIsPayloadAtRejection ==
    [][\A t \in 1..Len(tasks) :
          (SettlesNow(t) /\ tasks'[t].encode = "rejected" /\ encodingPromise = t)
          => /\ encodedBody' = decodedBody'
             /\ decodedBody' = lastSet'
             /\ contentLengthOf(encodedBody') = byteLength(decodedBody')
             /\ tasks'[t].promise = "fulfilled"
             /\ tasks'[t].value = decodedBody']_vars

\* The current task was started with one payload and failed after
\* updateDecodedBody had put a longer one: the longer one is held and counted.
C24_Witness ==
    \E t \in 1..Len(tasks) :
        /\ encodingPromise = t
        /\ tasks[t].encode = "rejected"
        /\ byteLength(tasks[t].decoded) < byteLength(decodedBody)
        /\ encodedBody = decodedBody
        /\ lastSet = decodedBody
        /\ contentLength = byteLength(decodedBody)
        /\ contentLength > 0


----------------------------------------------------------------------------
(* FridaConfig (src/unnamed/part_000, lines 120-337): the hosts and targets *)
(* of the Frida interceptor, and the activations started for them.  A host  *)
(* is its id; fridaHosts gives the state of every id, Absent for an id that *)
(* is not in the list.  An activation is identified by its position in      *)
(* `activations`.  updateTargets only fetches the list that is displayed    *)
(* and is left out.                                                         *)

HostIds == {"h1", "h2"}

TargetIds == {"t1"}

HostStates == {"available", "launch-required", "setup-required", "unavailable"}

Absent == "absent"

\* What can be typed into the search box.
SearchTexts == {"", "a"}

\* How many activations are started.
MaxActivations == 2

\* getHost(hostId) and host?.state: the state of the host, Absent when
\* find() returns undefined.
getHost(hosts, hostId) == IF hostId \in DOMAIN hosts THEN hosts[hostId] ELSE Absent

\* get selectedHost(): the id of the host it returns, NoHostId for undefined.
selectedHost(hosts, hostId) ==
    IF hostId = NoHostId THEN NoHostId
    ELSE IF getHost(hosts, hostId) = "unavailable" THEN NoHostId
    ELSE IF getHost(hosts, hostId) = Absent THEN NoHostId
    ELSE hostId

\* _.pull(array, value): removes every element equal to value.
pull(array, value) == SelectSeq(array, LAMBDA x : x # value)

\* array.includes(value)
includes(array, value) == \E i \in 1..Len(array) : array[i] = value

\* Variant: any host of the list can be selected.
IsAvailableAny(state) == state # Absent

\* host?.state === 'available'
IsAvailable(state) == state = "available"

\* Variant: reportSuccess is called from finally().
ReportsSuccessAlways(outcome) == TRUE

\* .then(() => { this.props.reportSuccess(); }): runs when the activation fulfilled.
ReportsSuccess(outcome) == outcome = "fulfilled"

\* The call props.activateInterceptor(options), and the promise it returns.
Activation(actionName, hostId, targetId) ==
    [action |-> actionName, hostId |-> hostId, targetId |-> targetId, state |-> "pending"]

\* The fields of the component, as one record.
Frida ==
    [fridaHosts          |-> fridaHosts,
     selectedHostId      |-> selectedHostId,
     searchInput         |-> searchInput,
     inProgressHostIds   |-> inProgressHostIds,
     inProgressTargetIds |-> inProgressTargetIds,
     activations         |-> activations,
     reports             |-> reports]

\* selectHost(hostId), from the fields f: the fields when it returns.
selectHost(f, hostId) ==
    LET state == getHost(f.fridaHosts, hostId)
    IN  IF IsAvailable(state)
        THEN [f EXCEPT !.selectedHostId = hostId,
                       !.searchInput = ""]
        ELSE IF state = "launch-required"
        THEN [f EXCEPT !.inProgressHostIds = Append(@, hostId),
                       !.activations = Append(@, Activation("launch", hostId, ""))]
        ELSE IF state = "setup-required"
        THEN [f EXCEPT !.inProgressHostIds = Append(@, hostId),
                       !.activations = Append(@, Activation("setup", hostId, ""))]
        ELSE f

\* deselectHost()
deselectHost(f) == [f EXCEPT !.selectedHostId = NoHostId]

\* interceptTarget(targetId)
interceptTarget(f, targetId) ==
    LET host == selectedHost(f.fridaHosts, f.selectedHostId)
    IN  IF host = NoHostId
        THEN f
        ELSE [f EXCEPT !.inProgressTargetIds = Append(@, targetId),
                       !.activations = Append(@, Activation("intercept", host, targetId))]

\* The then() and finally() handlers of activation i, run when its promise
\* has settled with the given outcome.
settled(f, i, outcome) ==
    LET a == f.activations[i]
        g == [f EXCEPT !.activations[i].state = outcome]
    IN  IF a.action = "intercept"
        THEN [g EXCEPT !.reports = IF ReportsSuccess(outcome) THEN Append(@, i) ELSE @,
                       !.inProgressTargetIds = pull(@, a.targetId)]
        ELSE [g EXCEPT !.inProgressHostIds = pull(@, a.hostId)]

\* componentDidMount(): the host is selected when it is the only one and is
\* available.
componentDidMount(f) ==
    LET listed == { h \in DOMAIN f.fridaHosts : f.fridaHosts[h] # Absent }
    IN  IF Cardinality(listed) = 1 /\ \A h \in listed : f.fridaHosts[h] = "available"
        THEN selectHost(f, CHOOSE h \in listed : TRUE)
        ELSE f

\* The autorun of componentDidMount: a selected host that is no longer in the
\* list is deselected.
hostsChanged(f) ==
    IF f.selectedHostId # NoHostId /\ getHost(f.fridaHosts, f.selectedHostId) = Absent
    THEN deselectHost(f)
    ELSE f

\* The component has the fields f.
FridaHolds(f) ==
    /\ fridaHosts = f.fridaHosts
    /\ selectedHostId = f.selectedHostId
    /\ searchInput = f.searchInput
    /\ inProgressHostIds = f.inProgressHostIds
    /\ inProgressTargetIds = f.inProgressTargetIds
    /\ activations = f.activations
    /\ reports = f.reports

\* The handler leaves the component with the fields f.
FridaBecomes(f) ==
    /\ Len(f.activations) <= MaxActivations
    /\ fridaHosts' = f.fridaHosts
    /\ selectedHostId' = f.selectedHostId
    /\ searchInput' = f.searchInput
    /\ inProgressHostIds' = f.inProgressHostIds
    /\ inProgressTargetIds' = f.inProgressTargetIds
    /\ activations' = f.activations
    /\ reports' = f.reports
    /\ UNCHANGED <<bodyVars, transformVars, staticVars>>

\* The component is constructed and mounted with a host list.
FridaInit ==
    \E hosts \in [HostIds -> HostStates \cup {Absent}] :
        /\ BodyIdle /\ TransformIdle /\ StaticIdle
        /\ FridaHolds(componentDidMount([fridaHosts          |-> hosts,
                                          selectedHostId      |-> NoHostId,
                                          searchInput         |-> "",
                                          inProgressHostIds   |-> <<>>,
                                          inProgressTargetIds |-> <<>>,
                                          activations         |-> <<>>,
                                          reports             |-> <<>>]))

SelectHost(hostId) == FridaBecomes(selectHost(Frida, hostId))

DeselectHost == FridaBecomes(deselectHost(Frida))

InterceptTarget(targetId) == FridaBecomes(interceptTarget(Frida, targetId))

\* The promise of activation i settles; its handlers follow as microtasks.
ActivationSettles(i, outcome) ==
    /\ i \in 1..Len(activations)
    /\ activations[i].state = "pending"
    /\ FridaBecomes(settled(Frida, i, outcome))

\* props.interceptor.metadata.hosts changes, and the autorun follows.
HostsChange(hostId, state) ==
    /\ state # fridaHosts[hostId]
    /\ FridaBecomes(hostsChanged([Frida EXCEPT !.fridaHosts[hostId] = state]))

\* onSearchChange(event): the search box is shown while a host is selected.
OnSearchChange(text) ==
    /\ selectedHost(fridaHosts, selectedHostId) # NoHostId
    /\ text # searchInput
    /\ FridaBecomes([Frida EXCEPT !.searchInput = text])

FridaNext ==
    \/ \E hostId \in HostIds : SelectHost(hostId)
    \/ DeselectHost
    \/ \E targetId \in TargetIds : InterceptTarget(targetId)
    \/ \E i \in 1..Len(activations), outcome \in {"fulfilled", "rejected"} : ActivationSettles(i, outcome)
    \/ \E hostId \in HostIds, state \in HostStates \cup {Absent} : HostsChange(hostId, state)
    \/ \E text \in SearchTexts : OnSearchChange(text)

FridaSpec == FridaInit /\ [][FridaNext]_vars

\* The activations in flight.
InFlight == { i \in 1..Len(activations) : activations[i].state = "pending" }


\* The id that activation a is shown under, and the list that shows it.
ShownIn(f, a) == IF a.action = "intercept" THEN f.inProgressTargetIds ELSE f.inProgressHostIds

ShownId(a) == IF a.action = "intercept" THEN a.targetId ELSE a.hostId

\* C25 as stated: a host or target is in its in-progress list exactly while an
\* activation for it is in flight: every activation in flight has its id in
\* the list, two overlapping activations of one id included, and every id in
\* a list has an activation in flight.
C25_ActivatingWhileInFlight ==
    /\ \A i \in InFlight : includes(ShownIn(Frida, activations[i]), ShownId(activations[i]))
    /\ \A k \in 1..Len(inProgressHostIds) :
          \E i \in InFlight : /\ activations[i].action # "intercept"
                               /\ activations[i].hostId = inProgressHostIds[k]
    /\ \A k \in 1..Len(inProgressTargetIds) :
          \E i \in InFlight : /\ activations[i].action = "intercept"
                               /\ activations[i].targetId = inProgressTargetIds[k]

\* C26: selectHost.  selectedHostId becomes a host id only when that host is
\* in the list with state 'available'.  A 'launch' or 'setup' activation is
\* started one at a time, for a host whose state is 'launch-required' or
\* 'setup-required' respectively, the host is put in inProgressHostIds and
\* selectedHostId stays as it was.  selectHost of an 'unavailable' or unknown
\* host returns with every field as it was.
C26_SelectHostByState ==
    /\ [][(selectedHostId' # selectedHostId /\ selectedHostId' # NoHostId)
          => /\ getHost(fridaHosts, selectedHostId') = "available"
             /\ activations' = activations
             /\ inProgressHostIds' = inProgressHostIds]_vars
    /\ [][(Len(activations') > Len(activations) /\ activations'[Len(activations')].action # "intercept")
          => LET a == activations'[Len(activations')]
             IN  /\ activations' = Append(activations, a)
                 /\ a.state = "pending"
                 /\ a.action = "launch" <=> getHost(fridaHosts, a.hostId) = "launch-required"
                 /\ a.action = "setup" <=> getHost(fridaHosts, a.hostId) = "setup-required"
                 /\ inProgressHostIds' = Append(inProgressHostIds, a.hostId)
                 /\ selectedHostId' = selectedHostId]_vars
    /\ [](\A hostId \in HostIds \cup {"h0"} :
            LET f == selectHost(Frida, hostId)
                state == getHost(fridaHosts, hostId)
            IN  /\ state \in {"unavailable", Absent} => f = Frida
                /\ state \in {"launch-required", "setup-required"}
                       => /\ Len(f.activations) = Len(activations) + 1
                          /\ f.selectedHostId = selectedHostId
                /\ state = "available" => f.selectedHostId = hostId /\ f.activations = activations)

\* With two hosts in the list, one is selected and available, and the other
\* has had a launch and a setup started for it without becoming selected.
C26_Witness ==
    /\ selectedHostId = "h2"
    /\ fridaHosts["h2"] = "available"
    /\ fridaHosts["h1"] # Absent
    /\ Len(activations) = 2
    /\ \E i, j \in 1..2 : /\ activations[i].action = "launch" /\ activations[i].hostId = "h1"
                           /\ activations[j].action = "setup" /\ activations[j].hostId = "h1"
    /\ InFlight # {}
    /\ includes(inProgressHostIds, "h1")

\* How many times reportSuccess was called for activation i.
Reported(i) == Cardinality({ k \in 1..Len(reports) : reports[k] = i })

\* C27: interceptTarget.  reportSuccess is called in the step in which an
\* 'intercept' activation fulfils, once, and in no other step: not when an
\* activation rejects, not for a launch or a setup.  With no selected host, or
\* an unavailable one, interceptTarget returns with every field as it was; an
\* id is added to inProgressTargetIds only together with an 'intercept'
\* activation for the selected host.
C27_ReportSuccessOnFulfilment ==
    /\ [](\A i \in 1..Len(activations) :
            Reported(i) = IF activations[i].action = "intercept" /\ activations[i].state = "fulfilled"
                          THEN 1 ELSE 0)
    /\ [][\A i \in InFlight :
             activations'[i].state # "pending"
             => reports' = IF activations[i].action = "intercept" /\ activations'[i].state = "fulfilled"
                           THEN Append(reports, i)
                           ELSE reports]_vars
    /\ [][reports' # reports => \E i \in InFlight : activations'[i].state = "fulfilled"]_vars
    /\ [](\A targetId \in TargetIds :
            selectedHost(fridaHosts, selectedHostId) = NoHostId
            => interceptTarget(Frida, targetId) = Frida)
    /\ [][Len(inProgressTargetIds') > Len(inProgressTargetIds)
          => /\ selectedHostId # NoHostId
             /\ getHost(fridaHosts, selectedHostId) \notin {"unavailable", Absent}
             /\ \E targetId \in TargetIds :
                   /\ inProgressTargetIds' = Append(inProgressTargetIds, targetId)
                   /\ activations' = Append(activations,
                                            Activation("intercept", selectedHostId, targetId))]_vars

\* Of two 'intercept' activations the first rejected and the second
\* fulfilled: one report, for the second, and nothing left in progress.
C27_Witness ==
    /\ Len(activations) = 2
    /\ activations[1].action = "intercept" /\ activations[1].state = "rejected"
    /\ activations[2].action = "intercept" /\ activations[2].state = "fulfilled"
    /\ reports = <<2>>
    /\ inProgressTargetIds = <<>>


----------------------------------------------------------------------------
(* TransformingHandlerConfig and BodyTransformConfig (src/unnamed/part_000, *)
(* lines 1068-1405).  A transform object gives a value to each of its field *)
(* names; NotDefined stands for undefined, whether the key is there or not. *)
(* A JSON patch is written as its text.  updateHandler only reports the two *)
(* transform objects to the owner of the component and is left out.         *)

NotDefined == "undefined"

\* BodyTransformConfig.FIELDS
FIELDS == <<"replaceBody", "replaceBodyFromFile", "updateJsonBody">>

\* A field of the transforms that the body configuration does not own.
OtherFields == {"replaceMethod"}

TransformFields == { FIELDS[i] : i \in 1..Len(FIELDS) } \cup OtherFields

\* The values a field is given.
FieldValues(field) ==
    IF field = "replaceBody" THEN {"", "text"}
    ELSE IF field = "replaceBodyFromFile" THEN {"/tmp/a", "/tmp/b"}
    ELSE IF field = "updateJsonBody" THEN {"{}", "{a:1}"}
    ELSE {"GET", "POST"}

\* The options of the select element.
TransformTypes == {"none", "replaceBody", "replaceBodyFromFile", "updateJsonBody"}

\* The two transform objects of the component.
ObjNames == {"transformRequest", "transformResponse"}

\* transformField(objName)(key)(value): { ...this[objName], [key]: value }
transformField(transform, key, value) == [transform EXCEPT ![key] = value]

\* Variant: the other body fields are kept.
clearValuesSkipped(transform) == transform

\* clearValues(): props.onChange(field)(undefined) for every field of FIELDS.
clearValues(transform) ==
    transformField(transformField(transformField(transform, FIELDS[1], NotDefined),
                                  FIELDS[2], NotDefined),
                   FIELDS[3], NotDefined)

\* onTransformTypeChange(event), event.currentTarget.value = value
onTransformTypeChange(transform, value) ==
    LET cleared == clearValues(transform)
    IN  IF value = "updateJsonBody" THEN transformField(cleared, "updateJsonBody", "{}")
        ELSE IF value = "replaceBody" THEN transformField(cleared, "replaceBody", "")
        ELSE IF value = "replaceBodyFromFile" THEN transformField(cleared, "replaceBodyFromFile", "")
        ELSE cleared

\* setBodyReplacement(body)
setBodyReplacement(transform, value) ==
    transformField(clearValues(transform), "replaceBody", value)

\* selectBodyReplacementFile(), once uploadFile has resolved with result: an
\* absent or empty result changes nothing.
selectBodyReplacementFile(transform, result) ==
    IF result = NotDefined \/ result = ""
    THEN transform
    ELSE transformField(clearValues(transform), "replaceBodyFromFile", result)

\* setJsonBodyUpdate(body)
setJsonBodyUpdate(transform, value) ==
    transformField(clearValues(transform), "updateJsonBody", value)

\* The body fields of the transform that are defined.
DefinedBodyFields(transform) ==
    { i \in 1..Len(FIELDS) : transform[FIELDS[i]] # NotDefined }

\* this.props.handler.transformRequest || {}: the transforms a handler can be
\* stored with; nothing in the component says that a stored transform has one
\* body field only.
StoredTransforms ==
    { t \in [TransformFields -> {NotDefined, "", "text", "/tmp/a", "{}", "GET"}] :
        /\ \A f \in TransformFields : t[f] = NotDefined \/ t[f] \in FieldValues(f) \cup {""}
        /\ t["replaceMethod"] # "" }

TransformInit ==
    /\ BodyIdle /\ FridaIdle /\ StaticIdle
    /\ transformRequest \in StoredTransforms
    /\ transformResponse \in StoredTransforms
    /\ upload = "none"

\* The transform object named objName.
TransformOf(objName) == IF objName = "transformRequest" THEN transformRequest ELSE transformResponse

\* this[objName] = transform
TransformBecomes(objName, transform) ==
    /\ IF objName = "transformRequest"
       THEN transformRequest' = transform /\ UNCHANGED transformResponse
       ELSE transformResponse' = transform /\ UNCHANGED transformRequest
    /\ UNCHANGED <<bodyVars, fridaVars, staticVars>>

OnTransformTypeChange(objName, value) ==
    /\ TransformBecomes(objName, onTransformTypeChange(TransformOf(objName), value))
    /\ UNCHANGED upload

SetBodyReplacement(objName, value) ==
    /\ TransformBecomes(objName, setBodyReplacement(TransformOf(objName), value))
    /\ UNCHANGED upload

SetJsonBodyUpdate(objName, value) ==
    /\ TransformBecomes(objName, setJsonBodyUpdate(TransformOf(objName), value))
    /\ UNCHANGED upload

\* selectBodyReplacementFile() up to its await: the file dialog is open.
SelectBodyReplacementFile(objName) ==
    /\ upload = "none"
    /\ upload' = objName
    /\ UNCHANGED <<transformRequest, transformResponse, bodyVars, fridaVars, staticVars>>

\* uploadFile resolves, with a path or with nothing.
UploadResolves(result) ==
    /\ upload # "none"
    /\ upload' = "none"
    /\ TransformBecomes(upload, selectBodyReplacementFile(TransformOf(upload), result))

\* MethodTransformConfig: props.onChange(value), a field of another section.
SetReplaceMethod(value) ==
    /\ TransformBecomes("transformRequest", transformField(transformRequest, "replaceMethod", value))
    /\ UNCHANGED upload

TransformNext ==
    \/ \E objName \in ObjNames, value \in TransformTypes : OnTransformTypeChange(objName, value)
    \/ \E objName \in ObjNames, value \in FieldValues("replaceBody") : SetBodyReplacement(objName, value)
    \/ \E objName \in ObjNames, value \in FieldValues("updateJsonBody") : SetJsonBodyUpdate(objName, value)
    \/ \E objName \in ObjNames : SelectBodyReplacementFile(objName)
    \/ \E result \in FieldValues("replaceBodyFromFile") \cup {NotDefined, ""} : UploadResolves(result)
    \/ \E value \in FieldValues("replaceMethod") \cup {NotDefined} : SetReplaceMethod(value)

TransformSpec == TransformInit /\ [][TransformNext]_vars

\* The transform has exactly the body field `field` defined, with the given
\* value; for "none", no body field.
OnlyBodyField(transform, field, value) ==
    \A i \in 1..Len(FIELDS) :
        transform[FIELDS[i]] = IF FIELDS[i] = field THEN value ELSE NotDefined

\* The fields outside FIELDS are the same in both transforms.
SameOtherFields(before, after) == \A f \in OtherFields : after[f] = before[f]

\* C28: the body transform fields are mutually exclusive.  Whatever the
\* transform held, after onTransformTypeChange, setBodyReplacement,
\* setJsonBodyUpdate and a file selection that returned a path, the body
\* field selected or set is the only one of the three that is defined
\* (none of them after choosing 'none'), and the other fields of the
\* transform are as before.  A step that changes a transform object leaves
\* the other object alone, and either leaves at most one body field defined
\* and the other fields as before, or leaves the three body fields as before.
C28_BodyTransformsExclusive ==
    /\ [](\A objName \in ObjNames :
            LET t == TransformOf(objName)
            IN  /\ \A value \in TransformTypes :
                      /\ OnlyBodyField(onTransformTypeChange(t, value), value,
                                       IF value = "updateJsonBody" THEN "{}" ELSE "")
                      /\ SameOtherFields(t, onTransformTypeChange(t, value))
                /\ \A value \in FieldValues("replaceBody") :
                      /\ OnlyBodyField(setBodyReplacement(t, value), "replaceBody", value)
                      /\ SameOtherFields(t, setBodyReplacement(t, value))
                /\ \A value \in FieldValues("updateJsonBody") :
                      /\ OnlyBodyField(setJsonBodyUpdate(t, value), "updateJsonBody", value)
                      /\ SameOtherFields(t, setJsonBodyUpdate(t, value))
                /\ \A result \in FieldValues("replaceBodyFromFile") :
                      /\ OnlyBodyField(selectBodyReplacementFile(t, result), "replaceBodyFromFile", result)
                      /\ SameOtherFields(t, selectBodyReplacementFile(t, result)))
    /\ [][\A objName \in ObjNames :
             TransformOf(objName)' # TransformOf(objName)
             => /\ \A other \in ObjNames \ {objName} : TransformOf(other)' = TransformOf(other)
                /\ \/ Cardinality(DefinedBodyFields(TransformOf(objName)')) <= 1
                      /\ SameOtherFields(TransformOf(objName), TransformOf(objName)')
                   \/ \A i \in 1..Len(FIELDS) :
                         TransformOf(objName)'[FIELDS[i]] = TransformOf(objName)[FIELDS[i]]]_vars

\* A request transform now replaces the body by a file picked in the dialog
\* and by nothing else, and has its replacement method; the response
\* transform has a JSON patch and nothing else.
C28_Witness ==
    /\ transformRequest["replaceBodyFromFile"] = "/tmp/b"
    /\ transformRequest["replaceBody"] = NotDefined
    /\ transformRequest["updateJsonBody"] = NotDefined
    /\ transformRequest["replaceMethod"] = "POST"
    /\ transformResponse["updateJsonBody"] = "{a:1}"
    /\ transformResponse["replaceBody"] = NotDefined
    /\ transformResponse["replaceBodyFromFile"] = NotDefined
    /\ upload = "none"


----------------------------------------------------------------------------
(* StaticResponseHandlerConfig (src/unnamed/part_000, lines 555-760): the   *)
(* headers and the body of a fixed response, and the observer that rewrites *)
(* the content-length header when the body changes.  A string is the        *)
(* sequence of its characters.  The observers of the content type do not    *)
(* touch the content-length header and are left out, as is updateHandler,   *)
(* which reports the fields to the owner of the component.                  *)

\* undefined, for a header value: no string.
NoValue == <<"undefined">>

\* The header names of the response: the one the observer looks up, and the
\* same name as it is commonly written.
HeaderNames == {"content-length", "Content-Length"}

\* What a header is given: nothing, "", "0", "1", "2", "01", "1x", "x".
HeaderValues == {NoValue, <<>>, <<"0">>, <<"1">>, <<"2">>, <<"0", "1">>, <<"1", "x">>, <<"x">>}

StaticBodies == {<<>>, <<7>>, <<7, 7>>}

Digits == <<"0", "1", "2", "3", "4", "5", "6", "7", "8", "9">>

IsDigit(c) == \E d \in 1..Len(Digits) : Digits[d] = c

DigitValue(c) == (CHOOSE d \in 1..Len(Digits) : Digits[d] = c) - 1

\* NaN, where a number n is written <<n>>.
NaN == <<>>

\* The value of the longest prefix of str made of digits, after acc.
RECURSIVE DigitPrefix(_, _)
DigitPrefix(str, acc) ==
    IF str = <<>> \/ ~IsDigit(Head(str)) THEN acc
    ELSE DigitPrefix(Tail(str), 10 * acc + DigitValue(Head(str)))

RECURSIVE TrimStart(_)
TrimStart(str) == IF str # <<>> /\ Head(str) = " " THEN TrimStart(Tail(str)) ELSE str

\* parseInt(str, 10): leading blanks and a sign are skipped, the digits up to
\* the first other character are read; NaN when there is no digit.
parseInt(str) ==
    LET trimmed == TrimStart(str)
        signed == trimmed # <<>> /\ Head(trimmed) \in {"+", "-"}
        digits == IF signed THEN Tail(trimmed) ELSE trimmed
    IN  IF digits = <<>> \/ ~IsDigit(Head(digits)) THEN NaN
        ELSE IF signed /\ Head(trimmed) = "-" THEN <<0 - DigitPrefix(digits, 0)>>
        ELSE <<DigitPrefix(digits, 0)>>

\* (n).toString(), n a natural number
RECURSIVE toString(_)
toString(n) ==
    IF n < 10 THEN <<Digits[n + 1]>>
    ELSE toString(n \div 10) \o <<Digits[(n % 10) + 1]>>

\* byteLength(input) of util, for a Buffer or undefined.
utilByteLength(input) == IF input = Undefined THEN 0 ELSE Len(input)

\* getHeaderValue(headers, headerName), for headers with string values
getHeaderValue(h, headerName) == IF headerName \in DOMAIN h THEN h[headerName] ELSE NoValue

\* The observer of `body`: the headers it leaves.
bodyObserver(h, previousBody, newBody) ==
    LET lengthHeader == getHeaderValue(h, "content-length")
    IN  IF lengthHeader = NoValue \/ lengthHeader = <<>> THEN h
        ELSE IF parseInt(lengthHeader) = <<utilByteLength(previousBody)>>
        THEN [h EXCEPT !["content-length"] = toString(utilByteLength(newBody))]
        ELSE h

\* The component is constructed with the headers and the data of a handler.
StaticInit ==
    /\ BodyIdle /\ FridaIdle /\ TransformIdle
    /\ headers \in [HeaderNames -> HeaderValues]
    /\ body \in StaticBodies

\* setBody(body): a new Buffer is stored, and the observer of `body` runs.
SetBody(newBody) ==
    /\ body' = newBody
    /\ headers' = bodyObserver(headers, body, newBody)
    /\ UNCHANGED <<bodyVars, fridaVars, transformVars>>

\* onHeadersChanged(headers)
OnHeadersChanged(h) ==
    /\ h # headers
    /\ headers' = h
    /\ UNCHANGED <<body, bodyVars, fridaVars, transformVars>>

StaticNext ==
    \/ \E newBody \in StaticBodies : SetBody(newBody)
    \/ \E h \in [HeaderNames -> HeaderValues] : OnHeadersChanged(h)

StaticSpec == StaticInit /\ [][StaticNext]_vars

\* The number that a string of digits, and of nothing else, writes.
DecimalValue(str) ==
    IF str # <<>> /\ str # NoValue /\ \A i \in 1..Len(str) : IsDigit(str[i])
    THEN <<DigitPrefix(str, 0)>>
    ELSE NaN

\* The content-length header is there and is the byte length of b.
LengthCorrect(h, b) == DecimalValue(getHeaderValue(h, "content-length")) = <<Len(b)>>

\* C29 as stated: when the body changes, a content-length header that was the
\* byte length of the previous body is the byte length of the new body
\* afterwards, and headers whose content-length is absent or was not the byte
\* length of the previous body are left as they were.
C29_ContentLengthKeptCorrect ==
    [][body' # body
       => IF LengthCorrect(headers, body)
          THEN LengthCorrect(headers', body')
          ELSE headers' = headers]_vars

====
